---- MODULE Spec2Model ----
(***************************************************************************)
(* Model of saleor/product/utils/__init__.py: calculate_revenue_for_variant,*)
(* delete_categories, collect_categories_tree_products and                 *)
(* get_products_ids_without_variants, over a small relational database of   *)
(* categories (a forest), products, channel listings and variants.         *)
(***************************************************************************)
EXTENDS Integers, Sequences, FiniteSets, TLC

\* ---------------------------------------------------------------- bounds
NCat == 3
NProd == 2
NChan == 2
MaxIds == 2
MaxTime == 2
NOrder == 2
MaxLines == 3
NVar == 2
MaxList == 3

\* Python's None / SQL NULL (a null category, a null published_at).
None == 0

Cats == 1..NCat
Prods == 1..NProd
Chans == 1..NChan
\* A primary key that matches no category row.
MissingId == NCat + 1

VARIABLES
    db,                 \* the stored rows: categories, parent links, products, listings
    db0,                \* the stored rows when delete_categories was called
    categories_ids,     \* argument of delete_categories
    status,             \* "running" | "done" (committed) | "failed" (rolled back)
    pc,                 \* index of the next statement of delete_categories
    categories,         \* result cache of the `categories` queryset (line 46/50)
    productsQ,          \* the lazy `products` queryset: its OR-ed category terms
    product_channel_listing, \* the lazy listing queryset: its product__in subquery
    products,           \* list(products), line 55
    category_instances, \* list(categories), line 57
    idx,                \* position in the running event loop
    trace,              \* the side effects issued so far, in order
    channel_ids,        \* argument of mark_active_catalogue_promotion_rules_as_dirty
    \* calculate_revenue_for_variant
    start_date, order_lines, orders_dict, currency_code,
    revenue,            \* the local `revenue`
    ri,                 \* position of the for loop in order_lines
    rstatus,            \* "loop" | "returned"
    \* collect_categories_tree_products
    category,           \* its argument
    collected,          \* the queryset it returned
    cstatus,            \* "called" | "returned"
    \* get_products_ids_without_variants
    products_list,      \* its argument: product instances
    variant_product,    \* the stored variants: variant id -> product id
    ids_without_variants, \* the list it returned
    nstatus             \* "called" | "returned"

deleteVars == <<db, db0, categories_ids, status, pc, categories, productsQ,
                product_channel_listing, products, category_instances, idx,
                trace, channel_ids>>

revenueVars == <<start_date, order_lines, orders_dict, currency_code, revenue, ri, rstatus>>

collectVars == <<category, collected, cstatus>>

variantVars == <<products_list, variant_product, ids_without_variants, nstatus>>

vars == <<deleteVars, revenueVars, collectVars, variantVars>>

\* ---------------------------------------------------------------- helpers
Min(S) == CHOOSE x \in S : \A y \in S : x <= y

RECURSIVE SetToSeq(_)
\* The rows of a set in primary-key order.
SetToSeq(S) == IF S = {} THEN <<>> ELSE <<Min(S)>> \o SetToSeq(S \ {Min(S)})

Range(s) == {s[i] : i \in 1..Len(s)}

\* ---------------------------------------------------------------- queries
\* Category.objects.select_for_update().filter(pk__in=categories_ids)
CategoriesFilter(ids, d) == {c \in d.cats : c \in Range(ids)}

Children(c, d) == {x \in d.cats : d.parent[x] = c}

RECURSIVE DescendantsRec(_, _)
DescendantsRec(c, d) ==
    Children(c, d) \cup UNION {DescendantsRec(x, d) : x \in Children(c, d)}

\* category.get_descendants() returned the direct children only
DescendantsChildrenOnly(c, d) == Children(c, d)

\* category.get_descendants(): every node below c in its tree
Descendants(c, d) == DescendantsRec(c, d)

\* category.products.all(): the filter category_id = c
ProductsAll(c) == <<c>>

\* queryset | queryset: the two WHERE clauses OR-ed
QOr(q1, q2) == q1 \o q2

RECURSIVE CollectLoop(_, _)
\* for descendant in descendants: products = products | descendant.products.all()
CollectLoop(q, descs) ==
    IF descs = <<>> THEN q
    ELSE CollectLoop(QOr(q, ProductsAll(Head(descs))), Tail(descs))

collect_categories_tree_products(c, d) ==
    CollectLoop(ProductsAll(c), SetToSeq(Descendants(c, d)))

RECURSIVE CategoriesLoop(_, _, _)
\* for category in categories: products = products | collect_...(category)
CategoriesLoop(q, cs, d) ==
    IF cs = <<>> THEN q
    ELSE CategoriesLoop(QOr(q, collect_categories_tree_products(Head(cs), d)),
                        Tail(cs), d)

\* Evaluating the products queryset: the rows matching one of the OR-ed terms,
\* each row once.
EvalProducts(q, d) == {p \in d.products : d.prodCat[p] \in Range(q)}

RECURSIVE EvalPerTerm(_, _)
EvalPerTerm(q, d) ==
    IF q = <<>> THEN <<>>
    ELSE SetToSeq({p \in d.products : d.prodCat[p] = Head(q)}) \o EvalPerTerm(Tail(q), d)

\* list(products) built by chaining the per-category results (rows repeat
\* when the same term occurs twice)
ProductsListChained(q, d) == EvalPerTerm(q, d)

\* products = list(products)
ProductsList(q, d) == SetToSeq(EvalProducts(q, d))

\* ProductChannelListing.objects.all()
ListingFilterAll(q, d) == DOMAIN d.listings

\* ProductChannelListing.objects.filter(product__in=products), evaluated on d
ListingFilter(q, d) == {k \in DOMAIN d.listings : k[1] \in EvalProducts(q, d)}

\* update(is_published=False) only
UpdateValuesKeepDate(l) == [is_published |-> FALSE, published_at |-> l.published_at]

\* update(is_published=False, published_at=None)
UpdateValues(l) == [is_published |-> FALSE, published_at |-> None]

ListingsUpdate(d, q) ==
    [d EXCEPT !.listings =
        [k \in DOMAIN d.listings |->
            IF k \in ListingFilter(q, d) THEN UpdateValues(d.listings[k])
            ELSE d.listings[k]]]

RECURSIVE CascadeRec(_, _)
CascadeRec(S, d) ==
    LET more == {x \in d.cats : d.parent[x] \in S} \ S
    IN IF more = {} THEN S ELSE CascadeRec(S \cup more, d)

\* Category.parent is on_delete=CASCADE: deleting a row deletes the rows
\* that point at it.
OnDeleteCascade(S, d) == CascadeRec(S, d)

\* Product.category is on_delete=SET_NULL: the product rows stay.
OnDeleteSetNull(del, d) ==
    [p \in d.products |-> IF d.prodCat[p] \in del THEN None ELSE d.prodCat[p]]

DeleteRows(roots, d) ==
    LET del == OnDeleteCascade(roots, d)
    IN [d EXCEPT !.cats = d.cats \ del,
                 !.parent = [c \in d.cats \ del |-> d.parent[c]],
                 !.prodCat = OnDeleteSetNull(del, d)]

\* only the first row of the queryset is deleted
CategoriesDeleteFirst(ids, d) ==
    LET roots == CategoriesFilter(ids, d)
    IN IF roots = {} THEN d ELSE DeleteRows({Min(roots)}, d)

\* categories.delete()
CategoriesDelete(ids, d) == DeleteRows(CategoriesFilter(ids, d), d)

\* set(product_channel_listing.values_list("channel_id", flat=True))
ChannelIds(q, d) == {k[2] : k \in ListingFilter(q, d)}

\* no transaction: what was written stays written
OnExceptionNoRollback(before, now) == now

\* @traced_atomic_transaction(): an exception leaving the function rolls the
\* database back to what it was on entry.
OnException(before, now) == before

\* ---------------------------------------------------------------- delete_categories
\* update and delete swapped
BodyDeleteFirst ==
    <<"collect", "delete", "update", "category_events", "product_events", "mark_dirty">>

\* The statements of delete_categories in program order.
Body ==
    <<"collect", "update", "delete", "category_events", "product_events", "mark_dirty">>

Stmt == IF pc \in 1..Len(Body) THEN Body[pc] ELSE "return"

Running(s) == status = "running" /\ Stmt = s

ListingStates == {[is_published |-> TRUE, published_at |-> 1],
                  [is_published |-> FALSE, published_at |-> None]}

IdSeqs == UNION {[1..n -> 1..MissingId] : n \in 0..MaxIds}

Forests == {f \in [Cats -> {None} \cup Cats] : \A c \in Cats : f[c] < c}

InitDb ==
    \E f \in Forests, pcat \in [Prods -> {None} \cup Cats],
       present \in SUBSET (Prods \X Chans) :
      \E ls \in [present -> ListingStates] :
        db = [cats |-> Cats, parent |-> f, products |-> Prods,
              prodCat |-> pcat, listings |-> ls]

IdleRevenue ==
    /\ start_date = 0
    /\ order_lines = <<>>
    /\ orders_dict = <<>>
    /\ currency_code = "USD"
    /\ revenue = None
    /\ ri = 1
    /\ rstatus = "idle"

IdleCollect ==
    /\ category = None
    /\ collected = <<>>
    /\ cstatus = "idle"

IdleVariants ==
    /\ products_list = <<>>
    /\ variant_product = <<>>
    /\ ids_without_variants = <<>>
    /\ nstatus = "idle"

InitDelete ==
    /\ InitDb
    /\ db0 = db
    /\ categories_ids \in IdSeqs
    /\ status = "running"
    /\ pc = 1
    /\ categories = <<>>
    /\ productsQ = <<>>
    /\ product_channel_listing = <<>>
    /\ products = <<>>
    /\ category_instances = <<>>
    /\ idx = 1
    /\ trace = <<>>
    /\ channel_ids = {}
    /\ IdleRevenue
    /\ IdleCollect
    /\ IdleVariants

\* lines 46-51
Collect ==
    /\ Running("collect")
    /\ categories' = SetToSeq(CategoriesFilter(categories_ids, db))
    /\ productsQ' = CategoriesLoop(<<>>, categories', db)
    /\ pc' = pc + 1
    /\ UNCHANGED <<revenueVars, collectVars, variantVars>>
    /\ UNCHANGED <<db, db0, categories_ids, status, product_channel_listing,
                   products, category_instances, idx, trace, channel_ids>>

\* lines 53-55
Update ==
    /\ Running("update")
    /\ product_channel_listing' = productsQ
    /\ db' = ListingsUpdate(db, productsQ)
    /\ products' = ProductsList(productsQ, db')
    /\ trace' = Append(trace, <<"listing_update", 0>>)
    /\ pc' = pc + 1
    /\ UNCHANGED <<revenueVars, collectVars, variantVars>>
    /\ UNCHANGED <<db0, categories_ids, status, categories, productsQ,
                   category_instances, idx, channel_ids>>

\* lines 57-58
Delete ==
    /\ Running("delete")
    /\ category_instances' = categories
    /\ db' = CategoriesDelete(categories_ids, db)
    /\ trace' = Append(trace, <<"categories_delete", 0>>)
    /\ pc' = pc + 1
    /\ UNCHANGED <<revenueVars, collectVars, variantVars>>
    /\ UNCHANGED <<db0, categories_ids, status, categories, productsQ,
                   product_channel_listing, products, idx, channel_ids>>

\* lines 60-61, one iteration
CategoryDeletedEvent ==
    /\ Running("category_events")
    /\ idx <= Len(category_instances)
    /\ trace' = Append(trace, <<"category_deleted", category_instances[idx]>>)
    /\ idx' = idx + 1
    /\ UNCHANGED <<revenueVars, collectVars, variantVars>>
    /\ UNCHANGED <<db, db0, categories_ids, status, pc, categories, productsQ,
                   product_channel_listing, products, category_instances,
                   channel_ids>>

\* line 60, the loop is exhausted
CategoryEventsEnd ==
    /\ Running("category_events")
    /\ idx > Len(category_instances)
    /\ idx' = 1
    /\ pc' = pc + 1
    /\ UNCHANGED <<revenueVars, collectVars, variantVars>>
    /\ UNCHANGED <<db, db0, categories_ids, status, categories, productsQ,
                   product_channel_listing, products, category_instances,
                   trace, channel_ids>>

\* lines 63-64, one iteration
ProductUpdatedEvent ==
    /\ Running("product_events")
    /\ idx <= Len(products)
    /\ trace' = Append(trace, <<"product_updated", products[idx]>>)
    /\ idx' = idx + 1
    /\ UNCHANGED <<revenueVars, collectVars, variantVars>>
    /\ UNCHANGED <<db, db0, categories_ids, status, pc, categories, productsQ,
                   product_channel_listing, products, category_instances,
                   channel_ids>>

\* line 63, the loop is exhausted
ProductEventsEnd ==
    /\ Running("product_events")
    /\ idx > Len(products)
    /\ idx' = 1
    /\ pc' = pc + 1
    /\ UNCHANGED <<revenueVars, collectVars, variantVars>>
    /\ UNCHANGED <<db, db0, categories_ids, status, categories, productsQ,
                   product_channel_listing, products, category_instances,
                   trace, channel_ids>>

\* lines 66-67
MarkDirty ==
    /\ Running("mark_dirty")
    /\ channel_ids' = ChannelIds(product_channel_listing, db)
    /\ trace' = Append(trace, <<"mark_dirty", 0>>)
    /\ pc' = pc + 1
    /\ UNCHANGED <<revenueVars, collectVars, variantVars>>
    /\ UNCHANGED <<db, db0, categories_ids, status, categories, productsQ,
                   product_channel_listing, products, category_instances, idx>>

\* the function returns and the transaction commits
Return ==
    /\ Running("return")
    /\ status' = "done"
    /\ UNCHANGED <<revenueVars, collectVars, variantVars>>
    /\ UNCHANGED <<db, db0, categories_ids, pc, categories, productsQ,
                   product_channel_listing, products, category_instances, idx,
                   trace, channel_ids>>

\* the statement at pc raises: the exception leaves the atomic block
Raise ==
    /\ status = "running"
    /\ pc \in 1..Len(Body)
    /\ status' = "failed"
    /\ db' = OnException(db0, db)
    /\ UNCHANGED <<revenueVars, collectVars, variantVars>>
    /\ UNCHANGED <<db0, categories_ids, pc, categories, productsQ,
                   product_channel_listing, products, category_instances, idx,
                   trace, channel_ids>>

Next ==
    \/ Collect
    \/ Update
    \/ Delete
    \/ CategoryDeletedEvent
    \/ CategoryEventsEnd
    \/ ProductUpdatedEvent
    \/ ProductEventsEnd
    \/ MarkDirty
    \/ Return
    \/ Raise

Init == InitDelete

Spec == Init /\ [][Next]_vars

\* ---------------------------------------------------------------- delete_categories: properties
RECURSIVE IsUnder(_, _, _)
\* x is c or has c among its ancestors (walking the parent links upwards)
IsUnder(x, c, d) ==
    \/ x = c
    \/ d.parent[x] # None /\ IsUnder(d.parent[x], c, d)

\* the existing categories named by categories_ids, when the call was made
GivenCats == {c \in db0.cats : \E i \in 1..Len(categories_ids) : categories_ids[i] = c}

Subtree == {x \in db0.cats : \E c \in GivenCats : IsUnder(x, c, db0)}

AffectedProducts == {p \in db0.products : db0.prodCat[p] \in Subtree}

AffectedListings == {k \in DOMAIN db0.listings : k[1] \in AffectedProducts}

Count(kind, id) == Cardinality({i \in 1..Len(trace) : trace[i] = <<kind, id>>})

Issued(kind) == {i \in 1..Len(trace) : trace[i][1] = kind}

\* C1: once delete_categories has completed, every channel listing of every
\* product that was in a given category or in a descendant of one when the
\* call was made has is_published = False and published_at = None.
C1_ListingsUnpublished ==
    status = "done" =>
        \A k \in AffectedListings :
            /\ k \in DOMAIN db.listings
            /\ db.listings[k].is_published = FALSE
            /\ db.listings[k].published_at = None

\* a completed run that unpublished a published listing of a product that
\* sits in a descendant of a given category, not in the category itself
C1_Witness ==
    /\ status = "done"
    /\ \E k \in AffectedListings :
        /\ db0.listings[k].is_published
        /\ db0.prodCat[k[1]] \notin GivenCats
        /\ ~db.listings[k].is_published

\* C2: once delete_categories has completed, no category named by
\* categories_ids and no descendant of one exists; an id matching no category
\* does not stop the run.
C2_TreesDeleted ==
    status = "done" =>
        /\ Subtree \cap db.cats = {}
        /\ \A i \in 1..Len(categories_ids) : categories_ids[i] \notin db.cats

\* a completed run given an id that matches nothing and a category that has
\* a descendant two levels down
C2_Witness ==
    /\ status = "done"
    /\ MissingId \in Range(categories_ids)
    /\ \E c \in GivenCats, x \in Subtree :
        /\ db0.parent[x] # None
        /\ db0.parent[x] # c
        /\ IsUnder(x, c, db0)
        /\ x \notin db.cats

FullyApplied ==
    /\ Subtree \cap db.cats = {}
    /\ \A k \in AffectedListings : ~db.listings[k].is_published

Rank(kind) ==
    CASE kind = "listing_update" -> 1
      [] kind = "categories_delete" -> 2
      [] kind = "category_deleted" -> 3
      [] kind = "product_updated" -> 4
      [] kind = "mark_dirty" -> 5

\* C7: in every run the listings are unpublished before the category rows
\* are deleted, every category_deleted event follows the delete, every
\* product_updated event follows all category_deleted events, and the
\* promotion rules are marked dirty once, after all product_updated events.
C7_SideEffectOrder ==
    /\ \A i, j \in 1..Len(trace) : i < j => Rank(trace[i][1]) <= Rank(trace[j][1])
    /\ Cardinality(Issued("listing_update")) <= 1
    /\ Cardinality(Issued("categories_delete")) <= 1
    /\ Cardinality(Issued("mark_dirty")) <= 1
    /\ status = "done" => Cardinality(Issued("mark_dirty")) = 1
    /\ (status = "running" /\ db.cats # db0.cats) =>
           /\ Issued("listing_update") # {}
           /\ \A k \in AffectedListings : ~db.listings[k].is_published
    /\ Issued("category_deleted") # {} =>
           /\ Issued("categories_delete") # {}
           /\ status = "running" => GivenCats \cap db.cats = {}
    /\ Issued("product_updated") # {} =>
           \A c \in GivenCats : Count("category_deleted", c) >= 1
    /\ Issued("mark_dirty") # {} =>
           \A p \in AffectedProducts : Count("product_updated", p) >= 1

\* a completed run that issued every kind of side effect
C7_Witness ==
    /\ status = "done"
    /\ Cardinality(Issued("category_deleted")) >= 2
    /\ Cardinality(Issued("product_updated")) >= 2
    /\ Issued("mark_dirty") # {}
    /\ \E k \in AffectedListings : db0.listings[k].is_published

\* C8: a completed run has issued exactly one category_deleted event for
\* each existing category named by categories_ids and for nothing else, and
\* exactly one product_updated event for each product of the given subtrees
\* and for nothing else, also when a category and a descendant are both given.
C8_EventsOnce ==
    status = "done" =>
        /\ \A c \in 1..MissingId :
              Count("category_deleted", c) = IF c \in GivenCats THEN 1 ELSE 0
        /\ \A p \in Prods :
              Count("product_updated", p) = IF p \in AffectedProducts THEN 1 ELSE 0

\* a completed run given a category and one of its descendants, with a
\* product in the descendant, and an id that matches nothing
C8_Witness ==
    /\ status = "done"
    /\ \E c1, c2 \in GivenCats :
        /\ c1 # c2
        /\ IsUnder(c2, c1, db0)
        /\ \E p \in Prods : db0.prodCat[p] = c2 /\ Count("product_updated", p) = 1

\* C9: the channel ids handed to mark_active_catalogue_promotion_rules_as_dirty
\* are the channels of the listings the run unpublished.
C9_DirtyChannelsAreUnpublishedChannels ==
    status = "done" => channel_ids = {k[2] : k \in AffectedListings}

\* C10: delete_categories leaves alone the listings of products outside the
\* given subtrees and the categories outside them, and deletes no product
\* and no listing.
C10_Frame ==
    /\ DOMAIN db.listings = DOMAIN db0.listings
    /\ \A k \in DOMAIN db0.listings \ AffectedListings : db.listings[k] = db0.listings[k]
    /\ db0.cats \ Subtree \subseteq db.cats
    /\ \A c \in db0.cats \ Subtree : db.parent[c] = db0.parent[c]
    /\ db.products = db0.products
    /\ \A p \in db0.products \ AffectedProducts : db.prodCat[p] = db0.prodCat[p]

\* a completed run that deleted a category holding a listed product while a
\* published listing of a product in another, surviving category stayed
C10_Witness ==
    /\ status = "done"
    /\ AffectedListings # {}
    /\ \E k \in DOMAIN db0.listings \ AffectedListings :
        /\ db0.listings[k].is_published
        /\ db0.prodCat[k[1]] # None
        /\ db0.prodCat[k[1]] \in db.cats
        /\ db.listings[k].is_published

NoDb == [cats |-> {}, parent |-> <<>>, products |-> {}, prodCat |-> <<>>,
         listings |-> <<>>]

IdleDelete ==
    /\ db0 = NoDb
    /\ categories_ids = <<>>
    /\ status = "idle"
    /\ pc = 1
    /\ categories = <<>>
    /\ productsQ = <<>>
    /\ product_channel_listing = <<>>
    /\ products = <<>>
    /\ category_instances = <<>>
    /\ idx = 1
    /\ trace = <<>>
    /\ channel_ids = {}

\* ---------------------------------------------------------------- calculate_revenue_for_variant
Orders == 1..NOrder
Times == 0..MaxTime

\* TaxedMoney amounts (net, gross) an order line can carry
Prices == {[net |-> 1, gross |-> 1], [net |-> 2, gross |-> 3]}

\* zero_taxed_money(currency_code)
zero_taxed_money(cur) == [net |-> 0, gross |-> 0, currency |-> cur]

\* TaxedMoney.__add__: net and gross add up, the currency stays
MoneyAdd(m, price) ==
    [net |-> m.net + price.net, gross |-> m.gross + price.gross, currency |-> m.currency]

\* order.created_at > start_date
QualifiesStrictly(created_at, start) == created_at > start

\* order.created_at >= start_date
Qualifies(created_at, start) == created_at >= start

OrderLines ==
    UNION {[1..n -> [order_id : Orders, total_price : Prices]] : n \in 0..MaxLines}

InitRevenue ==
    /\ start_date \in Times
    /\ orders_dict \in [Orders -> [created_at : Times]]
    /\ order_lines \in OrderLines
    /\ currency_code \in {"USD", "EUR"}
    /\ revenue = zero_taxed_money(currency_code)
    /\ ri = 1
    /\ rstatus = "loop"
    /\ db = NoDb
    /\ IdleDelete
    /\ IdleCollect
    /\ IdleVariants

\* lines 30-33, one iteration
RevenueLine ==
    /\ rstatus = "loop"
    /\ ri <= Len(order_lines)
    /\ LET order_line == order_lines[ri]
           order == orders_dict[order_line.order_id]
       IN revenue' = IF Qualifies(order.created_at, start_date)
                     THEN MoneyAdd(revenue, order_line.total_price)
                     ELSE revenue
    /\ ri' = ri + 1
    /\ UNCHANGED <<start_date, order_lines, orders_dict, currency_code, rstatus>>
    /\ UNCHANGED <<deleteVars, collectVars, variantVars>>

\* line 34
RevenueReturn ==
    /\ rstatus = "loop"
    /\ ri > Len(order_lines)
    /\ rstatus' = "returned"
    /\ UNCHANGED <<start_date, order_lines, orders_dict, currency_code, revenue, ri>>
    /\ UNCHANGED <<deleteVars, collectVars, variantVars>>

NextRevenue ==
    \/ RevenueLine
    \/ RevenueReturn

SpecRevenue == InitRevenue /\ [][NextRevenue]_vars

\* the lines that count: those of an order created at start_date or later
QualifyingLines ==
    {i \in 1..Len(order_lines) : ~(orders_dict[order_lines[i].order_id].created_at < start_date)}

RECURSIVE SumNet(_)
SumNet(S) ==
    IF S = {} THEN 0
    ELSE LET i == CHOOSE x \in S : TRUE
         IN order_lines[i].total_price.net + SumNet(S \ {i})

RECURSIVE SumGross(_)
SumGross(S) ==
    IF S = {} THEN 0
    ELSE LET i == CHOOSE x \in S : TRUE
         IN order_lines[i].total_price.gross + SumGross(S \ {i})

\* C4: calculate_revenue_for_variant returns the sum of total_price over
\* exactly the order lines whose order has created_at >= start_date, in
\* currency_code; with no such line it returns the zero amount.
C4_RevenueIsSumOfQualifyingLines ==
    rstatus = "returned" =>
        /\ revenue.net = SumNet(QualifyingLines)
        /\ revenue.gross = SumGross(QualifyingLines)
        /\ revenue.currency = currency_code
        /\ QualifyingLines = {} => revenue = zero_taxed_money(currency_code)

\* a returned call with a line of an order created exactly at start_date, a
\* line of a later order and a line of an earlier order
C4_Witness ==
    /\ rstatus = "returned"
    /\ \E i, j \in 1..Len(order_lines) :
        /\ orders_dict[order_lines[i].order_id].created_at = start_date
        /\ orders_dict[order_lines[j].order_id].created_at < start_date
    /\ revenue.net > 0

\* ---------------------------------------------------------------- collect_categories_tree_products
InitCollect ==
    /\ \E f \in Forests, pcat \in [Prods -> {None} \cup Cats] :
        db = [cats |-> Cats, parent |-> f, products |-> Prods, prodCat |-> pcat,
              listings |-> <<>>]
    /\ category \in Cats
    /\ collected = <<>>
    /\ cstatus = "called"
    /\ IdleDelete
    /\ IdleRevenue
    /\ IdleVariants

\* lines 72-76
CollectCall ==
    /\ cstatus = "called"
    /\ collected' = collect_categories_tree_products(category, db)
    /\ cstatus' = "returned"
    /\ UNCHANGED <<category>>
    /\ UNCHANGED <<deleteVars, revenueVars, variantVars>>

NextCollect ==
    \/ CollectCall

SpecCollect == InitCollect /\ [][NextCollect]_vars

\* C5: the queryset collect_categories_tree_products(category) returns holds
\* exactly the products whose category is the given one or a descendant of
\* it at any depth.
C5_CollectIsSubtreeProducts ==
    cstatus = "returned" =>
        EvalProducts(collected, db) =
            {p \in db.products :
                db.prodCat[p] # None /\ IsUnder(db.prodCat[p], category, db)}

\* a returned call on a category with a product two levels below it, while
\* another product has no category
C5_Witness ==
    /\ cstatus = "returned"
    /\ \E p, r \in db.products :
        /\ db.prodCat[p] # None
        /\ db.parent[db.prodCat[p]] # None
        /\ db.parent[db.parent[db.prodCat[p]]] = category
        /\ p \in EvalProducts(collected, db)
        /\ db.prodCat[r] = None
        /\ r \notin EvalProducts(collected, db)

\* ---------------------------------------------------------------- get_products_ids_without_variants
Variants == 1..NVar

\* The rows of product LEFT OUTER JOIN variant for product p: one per
\* variant of p, or a single row with a NULL variant.
JoinRows(p, vp) ==
    LET vs == {v \in DOMAIN vp : vp[v] = p}
    IN IF vs = {} THEN {None} ELSE vs

RECURSIVE RowIds(_, _, _)
\* the product id of every row kept, products in primary-key order
RowIds(ps, keep, vp) ==
    IF ps = <<>> THEN <<>>
    ELSE [i \in 1..Cardinality({v \in JoinRows(Head(ps), vp) : keep[v]}) |-> Head(ps)]
         \o RowIds(Tail(ps), keep, vp)

\* filter(id__in=products_ids) without the variants__isnull condition
ProductsFilterIdsOnly(ids, vp) ==
    RowIds(SetToSeq(Prods \cap Range(ids)), [v \in {None} \cup Variants |-> TRUE], vp)

\* Product.objects.filter(id__in=products_ids, variants__isnull=True)
\*     .values_list("id", flat=True)
ProductsFilter(ids, vp) ==
    RowIds(SetToSeq(Prods \cap Range(ids)), [v \in {None} \cup Variants |-> v = None], vp)

InitVariants ==
    /\ products_list \in UNION {[1..n -> [id : Prods]] : n \in 0..MaxList}
    /\ \E present \in SUBSET Variants : variant_product \in [present -> Prods]
    /\ ids_without_variants = <<>>
    /\ nstatus = "called"
    /\ db = NoDb
    /\ IdleDelete
    /\ IdleRevenue
    /\ IdleCollect

\* lines 81-85
NoVariantsCall ==
    /\ nstatus = "called"
    /\ LET products_ids == [i \in 1..Len(products_list) |-> products_list[i].id]
       IN ids_without_variants' = ProductsFilter(products_ids, variant_product)
    /\ nstatus' = "returned"
    /\ UNCHANGED <<products_list, variant_product>>
    /\ UNCHANGED <<deleteVars, revenueVars, collectVars>>

NextVariants ==
    \/ NoVariantsCall

SpecVariants == InitVariants /\ [][NextVariants]_vars

ListedIds == {products_list[i].id : i \in 1..Len(products_list)}

HasVariant(p) == \E v \in DOMAIN variant_product : variant_product[v] = p

\* C6: get_products_ids_without_variants returns exactly the ids of the
\* products of products_list that have no variant, each once, and an empty
\* list for an empty products_list.
C6_IdsWithoutVariants ==
    nstatus = "returned" =>
        /\ Range(ids_without_variants) = {p \in ListedIds : ~HasVariant(p)}
        /\ \A i, j \in 1..Len(ids_without_variants) :
              i # j => ids_without_variants[i] # ids_without_variants[j]
        /\ products_list = <<>> => ids_without_variants = <<>>

\* a returned call whose list names a product without variants twice and a
\* product with two variants
C6_Witness ==
    /\ nstatus = "returned"
    /\ \E i, j, k \in 1..Len(products_list) :
        /\ i # j
        /\ products_list[i] = products_list[j]
        /\ ~HasVariant(products_list[i].id)
        /\ Cardinality({v \in DOMAIN variant_product :
                            variant_product[v] = products_list[k].id}) = 2
    /\ Len(ids_without_variants) = 1

====
